---- MODULE Spec2Model ----
(***************************************************************************)
(* MicroGL: bank transaction records are turned into balanced two-leg GL    *)
(* documents (gl_document.py) and posted once into the gl_items table       *)
(* (gl_processor.py, database.py).                                          *)
(*                                                                          *)
(* Representation.  Text is a sequence of one-character strings, so that    *)
(* Python's `in` on strings is substring containment on sequences.  A       *)
(* Decimal rounded to two places is the integer number of hundredths.  A    *)
(* SHA-256 hex digest is represented by the hashed text itself (the hash is *)
(* taken as injective); a transaction id is the pair of the digest and the  *)
(* text appended to it, which is unambiguous because "_" is no hex digit.   *)
(***************************************************************************)
EXTENDS Integers, Sequences, FiniteSets, TLC

VARIABLES table, ledger, txn, files, run, fileIdx, rowIdx, itemIdx, pc, doc, hist,
          batch, batchCode, batchIds, pureIn, storedAmounts, fetchedAmounts

vars == <<table, ledger, txn, files, run, fileIdx, rowIdx, itemIdx, pc, doc, hist,
          batch, batchCode, batchIds, pureIn, storedAmounts, fetchedAmounts>>

(* ------------------------------ bounds ---------------------------------- *)
MaxFiles == 2
MaxRecords == 2
MaxRuns == 2
MaxBatch == 3
MaxRules == 2
MaxDescLen == 2

(* ----------------------------- constants -------------------------------- *)
\* constants.get('bankTransactionCategories'), constants.get('dcIndicators'),
\* constants.get('bankAccountTypes'): the values of the configuration.
bankTransactionCategories == [deposit |-> "D", withdrawal |-> "C"]
dcIndicators == [debit |-> "D", credit |-> "C"]
bankAccountTypes == [debit |-> "Debit", credit |-> "Credit"]

None == "None"

(* ------------------------------- text ----------------------------------- *)
\* Python `needle in haystack` for str: case-sensitive substring containment.
Contains(needle, haystack) ==
    \E i \in 0..(Len(haystack) - Len(needle)) :
        SubSeq(haystack, i + 1, i + Len(needle)) = needle

DigitChar == <<"0", "1", "2", "3", "4", "5", "6", "7", "8", "9">>

RECURSIVE NatStr(_)
NatStr(n) == IF n < 10 THEN <<DigitChar[n + 1]>>
             ELSE NatStr(n \div 10) \o <<DigitChar[(n % 10) + 1]>>

Abs(x) == IF x < 0 THEN -x ELSE x

\* str() of a Decimal quantized to two places, held as hundredths.
DecimalStr(amount) ==
    (IF amount < 0 THEN <<"-">> ELSE <<>>)
        \o NatStr(Abs(amount) \div 100) \o <<".">>
        \o <<DigitChar[((Abs(amount) % 100) \div 10) + 1], DigitChar[(Abs(amount) % 10) + 1]>>

\* str() of a pandas Timestamp at midnight: "YYYY-MM-DD 00:00:00" (fixed width).
Pad2(n) == <<DigitChar[(n \div 10) + 1], DigitChar[(n % 10) + 1]>>

DateStr(date) == NatStr(date.year) \o <<"-">> \o Pad2(date.month) \o <<"-">> \o Pad2(date.day)

TimestampStr(date) == DateStr(date) \o <<" 00:00:00">>

\* hashlib.sha256(text.encode()).hexdigest(): the digest of a text, injective on it.
Sha256Hex(text) == <<"sha256">> \o text

(* ------------------------- database adapters ----------------------------- *)
\* int() of a value held as numerator over 100: truncation toward zero.
TruncDiv100(n) == IF n < 0 THEN -((-n) \div 100) ELSE n \div 100

\* A variant without the scaling: int(d).
adapt_decimal_unscaled(d) == TruncDiv100(d)

\* adapt_decimal(d) = int(d * 100)
adapt_decimal(d) == TruncDiv100(d * 100)

\* The bytes sqlite3 hands to a converter for an integer column value: its decimal text.
IntBytes(i) == (IF i < 0 THEN <<"-">> ELSE <<>>) \o NatStr(Abs(i))

DigitValue(c) == CHOOSE k \in 0..9 : DigitChar[k + 1] = c

\* Decimal(text) for the text of an integer, read digit by digit.
RECURSIVE ParseNat(_)
ParseNat(text) ==
    IF text = <<>> THEN 0
    ELSE ParseNat(SubSeq(text, 1, Len(text) - 1)) * 10 + DigitValue(text[Len(text)])

ParseInt(text) ==
    IF text # <<>> /\ Head(text) = "-" THEN -ParseNat(Tail(text)) ELSE ParseNat(text)

\* convert_decimal(i) = Decimal(i.decode('utf-8')) / 100: the integer n is the Decimal
\* n/100, which is n hundredths (n * 100 hundredths, divided by 100 without remainder).
convert_decimal(i) == (ParseInt(i) * 100) \div 100

\* adapt_date(date) = date.strftime("%Y-%m-%d")
adapt_date(date) == DateStr(date)

(* --------------------------- configuration ------------------------------ *)
CHK == <<"C", "H", "K">>
CC == <<"C", "C">>
SAV == <<"S", "A", "V">>
NOCFG == <<"X", "X">>

MissingGlMappingDefault == [glAccountRevenue |-> "4000", glAccountExpense |-> "6000",
                            unknownBp |-> "UNKNOWN"]

\* BankAccounts.bank_accounts["bankAccountProperties"]: the account directory of the run.
BankAccountProperties ==
    (CHK :> [bankAccountCode |-> CHK, bankAccountType |-> "Debit", currencyUnit |-> "USD",
             balanceSheetAccount |-> "1000",
             glMapping |-> << [searchString |-> <<"A", "B">>, glAccount |-> "6100", bp |-> "CAFE"],
                              [searchString |-> <<"Q">>, glAccount |-> "9999", bp |-> "GHOST"] >>,
             missingGlMappingDefault |-> MissingGlMappingDefault])
 @@ (CC :> [bankAccountCode |-> CC, bankAccountType |-> "Credit", currencyUnit |-> "EUR",
            balanceSheetAccount |-> "2000",
            glMapping |-> << [searchString |-> <<"A">>, glAccount |-> "6200", bp |-> "SHOP"],
                             [searchString |-> <<"Q">>, glAccount |-> "9999", bp |-> "GHOST"] >>,
            missingGlMappingDefault |-> MissingGlMappingDefault])
 @@ (SAV :> [bankAccountCode |-> SAV, bankAccountType |-> "Debit", currencyUnit |-> "USD",
             balanceSheetAccount |-> "1999",
             glMapping |-> << >>,
             missingGlMappingDefault |-> MissingGlMappingDefault])

\* ChartOfAccounts.accounts: account id -> account.
ChartAccounts ==
    ("1000" :> [accountId |-> "1000", accountType |-> "Asset", isTaxable |-> FALSE])
 @@ ("2000" :> [accountId |-> "2000", accountType |-> "Liability", isTaxable |-> FALSE])
 @@ ("4000" :> [accountId |-> "4000", accountType |-> "Revenue", isTaxable |-> TRUE])
 @@ ("6000" :> [accountId |-> "6000", accountType |-> "Expense", isTaxable |-> FALSE])
 @@ ("6100" :> [accountId |-> "6100", accountType |-> "Expense", isTaxable |-> TRUE])
 @@ ("6200" :> [accountId |-> "6200", accountType |-> "Expense", isTaxable |-> FALSE])

EmptyDict == << >>

\* ChartOfAccounts.get_account_properties: self.accounts.get(account_id, {})
get_account_properties(account_id) ==
    IF account_id \in DOMAIN ChartAccounts THEN ChartAccounts[account_id] ELSE EmptyDict

\* BankAccounts.get_bank_account_properties: the properties, or ValueError.
HasBankAccountProperties(bank_account_code) == bank_account_code \in DOMAIN BankAccountProperties

get_bank_account_properties(bank_account_code) == BankAccountProperties[bank_account_code]

(* ------------------------------ GLDocument ------------------------------ *)
\* A variant that compares with > where the code compares with >=.
determine_bank_transaction_category_strict(properties, Amount) ==
    IF properties.bankAccountType = bankAccountTypes.debit
    THEN (IF Amount > 0 THEN bankTransactionCategories.deposit
                        ELSE bankTransactionCategories.withdrawal)
    ELSE (IF Amount > 0 THEN bankTransactionCategories.withdrawal
                        ELSE bankTransactionCategories.deposit)

\* A variant that makes amount zero a deposit on either type of account.
determine_bank_transaction_category_zero_deposit(properties, Amount) ==
    IF Amount = 0 THEN bankTransactionCategories.deposit
    ELSE IF (properties.bankAccountType = bankAccountTypes.debit) = (Amount > 0)
    THEN bankTransactionCategories.deposit
    ELSE bankTransactionCategories.withdrawal

\* GLDocument._determine_bank_transaction_category
determine_bank_transaction_category(properties, Amount) ==
    IF properties.bankAccountType = bankAccountTypes.debit
    THEN (IF Amount >= 0 THEN bankTransactionCategories.deposit
                         ELSE bankTransactionCategories.withdrawal)
    ELSE (IF Amount >= 0 THEN bankTransactionCategories.withdrawal
                         ELSE bankTransactionCategories.deposit)

\* A variant of the loop that keeps the last matching rule instead of returning the first.
RECURSIVE LastMatch(_, _, _)
LastMatch(glMapping, i, search_string) ==
    IF i > Len(glMapping) THEN 0
    ELSE LET later == LastMatch(glMapping, i + 1, search_string)
         IN  IF later > 0 THEN later
             ELSE IF Contains(glMapping[i].searchString, search_string) THEN i ELSE 0

\* The for loop of get_gl_mapping_for_search_string: index of the first rule, from
\* position i on, whose searchString is in search_string; 0 when the loop falls through.
RECURSIVE FirstMatch(_, _, _)
FirstMatch(glMapping, i, search_string) ==
    IF i > Len(glMapping) THEN 0
    ELSE IF Contains(glMapping[i].searchString, search_string) THEN i
    ELSE FirstMatch(glMapping, i + 1, search_string)

\* A variant with the revenue and the expense default exchanged.
DefaultGlMappingSwapped(properties, search_string, bank_transaction_category) ==
    IF bank_transaction_category = "D"
    THEN [searchString |-> search_string,
          glAccount |-> properties.missingGlMappingDefault.glAccountExpense,
          bp |-> properties.missingGlMappingDefault.unknownBp]
    ELSE [searchString |-> search_string,
          glAccount |-> properties.missingGlMappingDefault.glAccountRevenue,
          bp |-> properties.missingGlMappingDefault.unknownBp]

\* The default mapping returned when no rule matched.
DefaultGlMapping(properties, search_string, bank_transaction_category) ==
    IF bank_transaction_category = "D"
    THEN [searchString |-> search_string,
          glAccount |-> properties.missingGlMappingDefault.glAccountRevenue,
          bp |-> properties.missingGlMappingDefault.unknownBp]
    ELSE [searchString |-> search_string,
          glAccount |-> properties.missingGlMappingDefault.glAccountExpense,
          bp |-> properties.missingGlMappingDefault.unknownBp]

\* BankAccount.get_gl_mapping_for_search_string
get_gl_mapping_for_search_string(properties, search_string, bank_transaction_category) ==
    LET i == FirstMatch(properties.glMapping, 1, search_string)
    IN  IF i > 0 THEN properties.glMapping[i]
        ELSE DefaultGlMapping(properties, search_string, bank_transaction_category)

\* The text GLDocument._assign_transaction_id hashes.  The f-string is continued over
\* a line break, so the indentation of the continuation line is part of the text.
ContinuationIndent == <<"                ">>

DocumentHashText(record, properties) ==
    TimestampStr(record.Date) \o DecimalStr(record.Amount) \o ContinuationIndent
        \o record.Description \o properties.bankAccountCode

\* A transaction id: a digest and the text appended to it.
TransactionId(digest, suffix) == [digest |-> digest, suffix |-> suffix]

\* A variant that numbers the id by the rows already stored under the same digest.
assign_transaction_id_counting(record, properties) ==
    LET digest == Sha256Hex(DocumentHashText(record, properties))
        stored == {i \in 1..Len(ledger) : ledger[i].transaction_id.digest = digest}
    IN  TransactionId(digest, IF stored = {} THEN <<>>
                              ELSE <<"_">> \o NatStr(Cardinality(stored)))

\* A variant that also hashes the check number.
assign_transaction_id_with_check_no(record, properties) ==
    TransactionId(Sha256Hex(DocumentHashText(record, properties)
                            \o (IF "CheckNo" \in DOMAIN record THEN record.CheckNo ELSE <<>>)),
                  <<>>)

\* GLDocument._assign_transaction_id
assign_transaction_id(record, properties) ==
    TransactionId(Sha256Hex(DocumentHashText(record, properties)), <<>>)

\* getattr(record, name, None)
GetAttr(record, name) == IF name \in DOMAIN record THEN record[name] ELSE None

\* The debit/credit indicator of the first item, from the category.
ItemIndicator(bank_transaction_category) ==
    IF bank_transaction_category = bankTransactionCategories.deposit
    THEN dcIndicators.credit
    ELSE dcIndicators.debit

\* A variant that keeps the sign of the bank record's amount.
ItemAmountRaw(debit_credit_indicator, Amount) == Amount

\* The signed amount of the first item.
ItemAmount(debit_credit_indicator, Amount) ==
    IF debit_credit_indicator = dcIndicators.debit THEN Abs(Amount) ELSE -Abs(Amount)

\* GLDocument._add_gl_item: the GLItem appended as items[0], given the mapping and
\* the chart entry of its account (the caller raises ValueError when that is empty).
add_gl_item(record, properties, transaction_id, category, gl_mapping, account_properties) ==
    LET debit_credit_indicator == ItemIndicator(category)
    IN  [transaction_id |-> transaction_id,
         transaction_item_id |-> "001",
         bank_csv_file |-> "",
         bank_csv_row_index |-> "",
         transaction_date |-> record.Date,
         posting_year |-> record.Date.year,
         posting_period |-> record.Date.month,
         transaction_amount |-> ItemAmount(debit_credit_indicator, record.Amount),
         currency_unit |-> properties.currencyUnit,
         debit_credit_indicator |-> debit_credit_indicator,
         transaction_description |-> record.Description,
         account_id |-> gl_mapping.glAccount,
         business_partner |-> gl_mapping.bp,
         bank_account_code |-> properties.bankAccountCode,
         investment_name |-> GetAttr(record, "Investment"),
         investment_symbol |-> GetAttr(record, "Symbol"),
         check_no |-> GetAttr(record, "CheckNo"),
         account_type |-> account_properties.accountType,
         is_taxable |-> account_properties.isTaxable]

\* A variant that copies the amount of the first item without negating it.
OffsettingAmountCopied(transaction_amount) == transaction_amount

\* The amount of the offsetting item.
OffsettingAmount(transaction_amount) == -transaction_amount

\* The indicator of the offsetting item.
OffsettingIndicator(debit_credit_indicator) ==
    IF debit_credit_indicator = "D" THEN "C" ELSE "D"

\* A variant that posts the offsetting item to the account of the first item and
\* takes the check number from nowhere.
add_offsetting_gl_item_on_first_account(item, properties, transaction_id, account_properties) ==
    [item EXCEPT !.transaction_item_id = "002",
                 !.transaction_amount = OffsettingAmount(item.transaction_amount),
                 !.debit_credit_indicator = OffsettingIndicator(item.debit_credit_indicator),
                 !.check_no = None]

\* GLDocument._add_offsetting_gl_item: the GLItem appended as items[1] (the caller
\* raises KeyError when the chart has no entry for the balance sheet account).
add_offsetting_gl_item(item, properties, transaction_id, account_properties) ==
    [transaction_id |-> transaction_id,
     transaction_item_id |-> "002",
     bank_csv_file |-> item.bank_csv_file,
     bank_csv_row_index |-> item.bank_csv_row_index,
     transaction_date |-> item.transaction_date,
     posting_year |-> item.posting_year,
     posting_period |-> item.posting_period,
     transaction_amount |-> OffsettingAmount(item.transaction_amount),
     currency_unit |-> item.currency_unit,
     debit_credit_indicator |-> OffsettingIndicator(item.debit_credit_indicator),
     transaction_description |-> item.transaction_description,
     account_id |-> properties.balanceSheetAccount,
     business_partner |-> item.business_partner,
     bank_account_code |-> item.bank_account_code,
     investment_name |-> item.investment_name,
     investment_symbol |-> item.investment_symbol,
     check_no |-> item.check_no,
     account_type |-> account_properties.accountType,
     is_taxable |-> account_properties.isTaxable]

\* GLDocument.__init__: the document built for a record of an account, or the
\* exception that leaves the constructor.
GLDocument(record, properties) ==
    LET category == determine_bank_transaction_category(properties, record.Amount)
        transaction_id == assign_transaction_id(record, properties)
        gl_mapping == get_gl_mapping_for_search_string(properties, record.Description, category)
        account_properties == get_account_properties(gl_mapping.glAccount)
        offsetting_properties == get_account_properties(properties.balanceSheetAccount)
        first == add_gl_item(record, properties, transaction_id, category, gl_mapping,
                             account_properties)
        base == [raised |-> None, bank_transaction_category |-> category,
                 transaction_id |-> transaction_id, gl_mapping |-> gl_mapping, items |-> <<>>]
    IN  IF DOMAIN account_properties = {}
        THEN [base EXCEPT !.raised = "ValueError"]
        ELSE IF "accountType" \notin DOMAIN offsetting_properties
        THEN [base EXCEPT !.raised = "KeyError", !.items = <<first>>]
        ELSE [base EXCEPT !.items =
                 <<first, add_offsetting_gl_item(first, properties, transaction_id,
                                                 offsetting_properties)>>]

NoDocument == [raised |-> "NoDocument", bank_transaction_category |-> None,
               transaction_id |-> TransactionId(<<>>, <<>>),
               gl_mapping |-> [searchString |-> <<>>, glAccount |-> None, bp |-> None],
               items |-> <<>>]

(* ------------------------- BankFileTransactions -------------------------- *)
\* The text _set_transaction_id hashes for a row.
RowHashText(row, bank_account_code) ==
    TimestampStr(row.Date) \o DecimalStr(row.Amount) \o row.Description \o bank_account_code

\* A variant that numbers the rows by their position in the file.
CumCountPosition(digests, i) == i - 1

\* groupby('TransactionID').cumcount(): the number of earlier rows with the same digest.
CumCount(digests, i) == Cardinality({j \in 1..(i - 1) : digests[j] = digests[i]})

\* BankFileTransactions._set_transaction_id: the TransactionID column of the rows.
set_transaction_id(rows, bank_account_code) ==
    LET digests == [i \in 1..Len(rows) |-> Sha256Hex(RowHashText(rows[i], bank_account_code))]
        sub_no == [i \in 1..Len(rows) |-> CumCount(digests, i) + 1]
    IN  [i \in 1..Len(rows) |-> TransactionId(digests[i], <<"_">> \o NatStr(sub_no[i]))]

(* ------------------------------- gl_items -------------------------------- *)
\* The table create_gl_table creates: no account_type and is_taxable columns.
CreatedTable == [exists |-> TRUE, account_columns |-> FALSE, primary_key |-> TRUE]

AbsentTable == [exists |-> FALSE, account_columns |-> FALSE, primary_key |-> FALSE]

\* Tables with every column insert_gl_items_into_db names.
FullTables == {[exists |-> TRUE, account_columns |-> TRUE, primary_key |-> k] : k \in BOOLEAN}

\* The parameters of the INSERT statement, adapted for storage.
InsertedRow(item) ==
    [transaction_id |-> item.transaction_id,
     transaction_item_id |-> item.transaction_item_id,
     transaction_date |-> adapt_date(item.transaction_date),
     posting_year |-> item.posting_year,
     posting_period |-> item.posting_period,
     transaction_amount |-> adapt_decimal(item.transaction_amount),
     currency_unit |-> item.currency_unit,
     debit_credit_indicator |-> item.debit_credit_indicator,
     transaction_description |-> item.transaction_description,
     account_id |-> item.account_id,
     business_partner |-> item.business_partner,
     bank_account_code |-> item.bank_account_code,
     investment_name |-> item.investment_name,
     investment_symbol |-> item.investment_symbol,
     check_no |-> item.check_no,
     account_type |-> item.account_type,
     is_taxable |-> item.is_taxable]

\* What the connection sees: the committed rows and those of its open transaction.
Visible == ledger \o txn

\* A variant that never finds the rows.
gl_items_exist_never(transaction_id, rows) == FALSE

\* A variant that finds the rows only when more than one pair is stored.
gl_items_exist_above_two(transaction_id, rows) ==
    Cardinality({i \in 1..Len(rows) : rows[i].transaction_id = transaction_id}) > 2

\* A variant that looks at the first stored row only.
gl_items_exist_in_first_row(transaction_id, rows) ==
    IF rows = <<>> THEN FALSE ELSE rows[1].transaction_id = transaction_id

\* GLDocument._gl_items_exist: SELECT COUNT(*) ... WHERE transaction_id = ? is > 0.
gl_items_exist(transaction_id, rows) ==
    Cardinality({i \in 1..Len(rows) : rows[i].transaction_id = transaction_id}) > 0

\* PRIMARY KEY (transaction_id, transaction_item_id) rejects the row.
PrimaryKeyViolated(row, rows) ==
    \E i \in 1..Len(rows) :
        /\ rows[i].transaction_id = row.transaction_id
        /\ rows[i].transaction_item_id = row.transaction_item_id

RECURSIVE SumAmounts(_)
SumAmounts(items) ==
    IF items = <<>> THEN 0 ELSE Head(items).transaction_amount + SumAmounts(Tail(items))

(* -------------------------------- inputs --------------------------------- *)
SeqUpTo(S, n) == UNION {[1..k -> S] : k \in 0..n}

D1 == [year |-> 2024, month |-> 3, day |-> 1]

\* Rows of bank_transaction_records after post-processing (Date, Amount, Description).
RecCoffee == [Date |-> D1, Amount |-> -450, Description |-> <<"A", "B">>]
RecSalary == [Date |-> D1, Amount |-> 4250, Description |-> <<"Z">>]
RecGhost == [Date |-> D1, Amount |-> -450, Description |-> <<"Q">>]

RecordPool == {RecCoffee, RecSalary}

\* The bank files a folder may hold: (bank account code, rows).
BankFiles ==
    {[bank_account_code |-> CHK, records |-> rs] : rs \in SeqUpTo(RecordPool, MaxRecords)}
    \cup {[bank_account_code |-> c, records |-> <<RecCoffee>>] : c \in {CC, SAV, NOCFG}}
    \cup {[bank_account_code |-> CHK, records |-> <<RecGhost, RecSalary>>]}

\* The folder: its files in listing order.
BankFolders == UNION {[1..k -> BankFiles] : k \in 1..MaxFiles}

(* ------------------------------ GLProcessor ------------------------------ *)
\* The log of the runs: what each run started from, assigned, committed and lost.
RunEntry == [kind |-> "run", outcome |-> "running", error |-> None, inserted |-> 0,
             rolledBack |-> 0, ids |-> <<>>, ledgerStart |-> ledger]

RefreshEntry == [kind |-> "refresh", outcome |-> "done", error |-> None, inserted |-> 0,
                 rolledBack |-> 0, ids |-> <<>>, ledgerStart |-> ledger]

Last(seq) == seq[Len(seq)]

CurrentFile == files[fileIdx]

CurrentProperties == get_bank_account_properties(CurrentFile.bank_account_code)

CurrentRecord == CurrentFile.records[rowIdx + 1]

CurrentDocument == GLDocument(CurrentRecord, CurrentProperties)

\* The id assigned to the record being processed is noted with its place in the run.
Noted(d) == [hist EXCEPT ![Len(hist)].ids = Append(@, [file |-> fileIdx, row |-> rowIdx + 1,
                                                      raised |-> d.raised,
                                                      transaction_id |-> d.transaction_id])]

\* An exception nothing catches ends the process; the open transaction is lost.
Ended(log, outcome, error) ==
    /\ pc' = "idle"
    /\ txn' = <<>>
    /\ hist' = [log EXCEPT ![Len(log)].outcome = outcome, ![Len(log)].error = error,
                           ![Len(log)].rolledBack = Len(txn)]

Init ==
    /\ table \in {AbsentTable, CreatedTable} \cup FullTables
    /\ ledger = <<>>
    /\ txn = <<>>
    /\ files \in BankFolders
    /\ run = 0
    /\ fileIdx = 0
    /\ rowIdx = 0
    /\ itemIdx = 0
    /\ pc = "idle"
    /\ doc = NoDocument
    /\ hist = <<>>
    /\ batch = <<>>
    /\ batchCode = <<>>
    /\ batchIds = <<>>
    /\ pureIn = None
    /\ storedAmounts = <<>>
    /\ fetchedAmounts = <<>>

\* A variant in which the reset is also called while a run is under way.
RefreshAnytime ==
    /\ run < MaxRuns
    /\ IF hist = <<>> THEN TRUE ELSE Last(hist).kind # "refresh"
    /\ table' = CreatedTable
    /\ ledger' = <<>>
    /\ hist' = Append(hist, RefreshEntry)
    /\ UNCHANGED <<txn, files, run, fileIdx, rowIdx, itemIdx, pc, doc, batch, batchCode,
                   batchIds, pureIn, storedAmounts, fetchedAmounts>>

\* GLProcessor.refresh_gl_items_table: drop_table, then create_gl_table.
RefreshGlItemsTable ==
    /\ pc = "idle"
    /\ run < MaxRuns
    /\ IF hist = <<>> THEN TRUE ELSE Last(hist).kind # "refresh"
    /\ table' = CreatedTable
    /\ ledger' = <<>>
    /\ hist' = Append(hist, RefreshEntry)
    /\ UNCHANGED <<txn, files, run, fileIdx, rowIdx, itemIdx, pc, doc, batch, batchCode,
                   batchIds, pureIn, storedAmounts, fetchedAmounts>>

\* GLProcessor.process_bank_transaction_csv_files is entered: BankCSVIterator lists the folder.
StartProcess ==
    /\ pc = "idle"
    /\ run < MaxRuns
    /\ run' = run + 1
    /\ fileIdx' = 0
    /\ rowIdx' = 0
    /\ itemIdx' = 0
    /\ doc' = NoDocument
    /\ pc' = "files"
    /\ hist' = Append(hist, RunEntry)
    /\ UNCHANGED <<table, ledger, txn, files, batch, batchCode, batchIds, pureIn, storedAmounts, fetchedAmounts>>

\* A variant in which the ValueError of BankAccount leaves the loop over the files.
NextFileSkippedAborts ==
    /\ pc = "files"
    /\ fileIdx < Len(files)
    /\ ~HasBankAccountProperties(files[fileIdx + 1].bank_account_code)
    /\ Ended(hist, "crashed", "ValueError")
    /\ UNCHANGED <<table, ledger, files, run, fileIdx, rowIdx, itemIdx, doc, batch, batchCode,
                   batchIds, pureIn, storedAmounts, fetchedAmounts>>

\* The next file's account has no properties: ValueError, caught, continue.
NextFileSkipped ==
    /\ pc = "files"
    /\ fileIdx < Len(files)
    /\ ~HasBankAccountProperties(files[fileIdx + 1].bank_account_code)
    /\ fileIdx' = fileIdx + 1
    /\ UNCHANGED <<table, ledger, txn, files, run, rowIdx, itemIdx, pc, doc, hist, batch,
                   batchCode, batchIds, pureIn, storedAmounts, fetchedAmounts>>

\* The next file is read and _record_bank_file_transactions_in_GL is entered.
NextFileOpened ==
    /\ pc = "files"
    /\ fileIdx < Len(files)
    /\ HasBankAccountProperties(files[fileIdx + 1].bank_account_code)
    /\ fileIdx' = fileIdx + 1
    /\ rowIdx' = 0
    /\ pc' = "records"
    /\ UNCHANGED <<table, ledger, txn, files, run, itemIdx, doc, hist, batch, batchCode,
                   batchIds, pureIn, storedAmounts, fetchedAmounts>>

\* BankCSVIterator raises StopIteration: process_bank_transaction_csv_files returns.
FilesExhausted ==
    /\ pc = "files"
    /\ fileIdx = Len(files)
    /\ Ended(hist, "done", None)
    /\ UNCHANGED <<table, ledger, files, run, fileIdx, rowIdx, itemIdx, doc, batch, batchCode,
                   batchIds, pureIn, storedAmounts, fetchedAmounts>>

AtRecord == pc = "records" /\ rowIdx < Len(CurrentFile.records)

\* A variant in which the ValueError of GLDocument is not caught.
RecordValueErrorUncaught ==
    /\ AtRecord
    /\ CurrentDocument.raised = "ValueError"
    /\ doc' = CurrentDocument
    /\ Ended(Noted(CurrentDocument), "crashed", "ValueError")
    /\ UNCHANGED <<table, ledger, files, run, fileIdx, rowIdx, itemIdx, batch, batchCode,
                   batchIds, pureIn, storedAmounts, fetchedAmounts>>

\* GLDocument raises ValueError: caught, the record is skipped.
RecordValueError ==
    /\ AtRecord
    /\ CurrentDocument.raised = "ValueError"
    /\ doc' = CurrentDocument
    /\ rowIdx' = rowIdx + 1
    /\ hist' = Noted(CurrentDocument)
    /\ UNCHANGED <<table, ledger, txn, files, run, fileIdx, itemIdx, pc, batch, batchCode,
                   batchIds, pureIn, storedAmounts, fetchedAmounts>>

\* GLDocument raises KeyError in _add_offsetting_gl_item: not caught.
RecordKeyError ==
    /\ AtRecord
    /\ CurrentDocument.raised = "KeyError"
    /\ doc' = CurrentDocument
    /\ Ended(Noted(CurrentDocument), "crashed", "KeyError")
    /\ UNCHANGED <<table, ledger, files, run, fileIdx, rowIdx, itemIdx, batch, batchCode,
                   batchIds, pureIn, storedAmounts, fetchedAmounts>>

\* _gl_items_exist selects from a table that does not exist: OperationalError, not caught.
RecordExistsFails ==
    /\ AtRecord
    /\ CurrentDocument.raised = None
    /\ ~table.exists
    /\ doc' = CurrentDocument
    /\ Ended(Noted(CurrentDocument), "crashed", "OperationalError")
    /\ UNCHANGED <<table, ledger, files, run, fileIdx, rowIdx, itemIdx, batch, batchCode,
                   batchIds, pureIn, storedAmounts, fetchedAmounts>>

\* _gl_items_exist is true: the record is already in the database.
RecordAlreadyInDatabase ==
    /\ AtRecord
    /\ CurrentDocument.raised = None
    /\ table.exists
    /\ gl_items_exist(CurrentDocument.transaction_id, Visible)
    /\ doc' = CurrentDocument
    /\ rowIdx' = rowIdx + 1
    /\ hist' = Noted(CurrentDocument)
    /\ UNCHANGED <<table, ledger, txn, files, run, fileIdx, itemIdx, pc, batch, batchCode,
                   batchIds, pureIn, storedAmounts, fetchedAmounts>>

\* _gl_items_exist is false: insert_gl_items_into_db is entered and asserts the total.
RecordInsertBegins ==
    /\ AtRecord
    /\ CurrentDocument.raised = None
    /\ table.exists
    /\ ~gl_items_exist(CurrentDocument.transaction_id, Visible)
    /\ doc' = CurrentDocument
    /\ itemIdx' = 0
    /\ IF SumAmounts(CurrentDocument.items) = 0
       THEN pc' = "insert" /\ hist' = Noted(CurrentDocument) /\ txn' = txn
       ELSE Ended(Noted(CurrentDocument), "crashed", "AssertionError")
    /\ UNCHANGED <<table, ledger, files, run, fileIdx, rowIdx, batch, batchCode, batchIds,
                   pureIn, storedAmounts, fetchedAmounts>>

AtItem == pc = "insert" /\ itemIdx < Len(doc.items)

\* The INSERT names a column the table does not have: OperationalError, not caught.
InsertFails ==
    /\ AtItem
    /\ ~table.account_columns
    /\ Ended(hist, "crashed", "OperationalError")
    /\ UNCHANGED <<table, ledger, files, run, fileIdx, rowIdx, itemIdx, doc, batch, batchCode,
                   batchIds, pureIn, storedAmounts, fetchedAmounts>>

\* A variant that commits every INSERT on its own.
InsertItemAutocommit ==
    /\ AtItem
    /\ table.account_columns
    /\ LET row == InsertedRow(doc.items[itemIdx + 1])
       IN  IF table.primary_key /\ PrimaryKeyViolated(row, Visible)
           THEN Ended(hist, "crashed", "IntegrityError") /\ itemIdx' = itemIdx /\ ledger' = ledger
           ELSE /\ ledger' = Append(ledger, row)
                /\ itemIdx' = itemIdx + 1
                /\ UNCHANGED <<pc, hist, txn>>
    /\ UNCHANGED <<table, files, run, fileIdx, rowIdx, doc, batch, batchCode,
                   batchIds, pureIn, storedAmounts, fetchedAmounts>>

\* A variant whose statement is INSERT OR REPLACE: a stored key is overwritten.
InsertItemOrReplace ==
    /\ AtItem
    /\ table.account_columns
    /\ txn' = Append(txn, InsertedRow(doc.items[itemIdx + 1]))
    /\ itemIdx' = itemIdx + 1
    /\ UNCHANGED <<pc, hist>>
    /\ UNCHANGED <<table, ledger, files, run, fileIdx, rowIdx, doc, batch, batchCode,
                   batchIds, pureIn, storedAmounts, fetchedAmounts>>

\* glDb.cursor.execute(INSERT ...) for the next item, inside the open transaction.
InsertItem ==
    /\ AtItem
    /\ table.account_columns
    /\ LET row == InsertedRow(doc.items[itemIdx + 1])
       IN  IF table.primary_key /\ PrimaryKeyViolated(row, Visible)
           THEN Ended(hist, "crashed", "IntegrityError") /\ itemIdx' = itemIdx
           ELSE /\ txn' = Append(txn, row)
                /\ itemIdx' = itemIdx + 1
                /\ UNCHANGED <<pc, hist>>
    /\ UNCHANGED <<table, ledger, files, run, fileIdx, rowIdx, doc, batch, batchCode,
                   batchIds, pureIn, storedAmounts, fetchedAmounts>>

\* A variant in which the committed rows replace the stored ones.
CommitOverwriting ==
    /\ pc = "insert"
    /\ itemIdx = Len(doc.items)
    /\ ledger' = txn
    /\ txn' = <<>>
    /\ hist' = [hist EXCEPT ![Len(hist)].inserted = @ + Len(txn)]
    /\ rowIdx' = rowIdx + 1
    /\ pc' = "records"
    /\ UNCHANGED <<table, files, run, fileIdx, itemIdx, doc, batch, batchCode, batchIds,
                   pureIn, storedAmounts, fetchedAmounts>>

\* glDb.commit() after the loop over the items; the record is done.
Commit ==
    /\ pc = "insert"
    /\ itemIdx = Len(doc.items)
    /\ ledger' = ledger \o txn
    /\ txn' = <<>>
    /\ hist' = [hist EXCEPT ![Len(hist)].inserted = @ + Len(txn)]
    /\ rowIdx' = rowIdx + 1
    /\ pc' = "records"
    /\ UNCHANGED <<table, files, run, fileIdx, itemIdx, doc, batch, batchCode, batchIds,
                   pureIn, storedAmounts, fetchedAmounts>>

\* iterrows() is exhausted: back to the loop over the files.
EndOfFile ==
    /\ pc = "records"
    /\ rowIdx = Len(CurrentFile.records)
    /\ pc' = "files"
    /\ UNCHANGED <<table, ledger, txn, files, run, fileIdx, rowIdx, itemIdx, doc, hist, batch,
                   batchCode, batchIds, pureIn, storedAmounts, fetchedAmounts>>

\* A variant in which the rows of the open transaction survive the termination.
InterruptKeepsOpenRows ==
    /\ pc \in {"files", "records", "insert"}
    /\ Ended(hist, "interrupted", None)
    /\ ledger' = ledger \o txn
    /\ UNCHANGED <<table, files, run, fileIdx, rowIdx, itemIdx, doc, batch, batchCode,
                   batchIds, pureIn, storedAmounts, fetchedAmounts>>

\* The process is terminated from outside; what was not committed is rolled back.
Interrupt ==
    /\ pc \in {"files", "records", "insert"}
    /\ Ended(hist, "interrupted", None)
    /\ UNCHANGED <<table, ledger, files, run, fileIdx, rowIdx, itemIdx, doc, batch, batchCode,
                   batchIds, pureIn, storedAmounts, fetchedAmounts>>

Next ==
    \/ RefreshGlItemsTable
    \/ StartProcess
    \/ NextFileSkipped
    \/ NextFileOpened
    \/ FilesExhausted
    \/ RecordValueError
    \/ RecordKeyError
    \/ RecordExistsFails
    \/ RecordAlreadyInDatabase
    \/ RecordInsertBegins
    \/ InsertFails
    \/ InsertItem
    \/ Commit
    \/ EndOfFile

Spec == Init /\ [][Next]_vars

\* The steps of a run under way: the interpreter executes the loop's next statement.
LoopStep ==
    \/ NextFileSkipped
    \/ NextFileOpened
    \/ FilesExhausted
    \/ RecordValueError
    \/ RecordKeyError
    \/ RecordExistsFails
    \/ RecordAlreadyInDatabase
    \/ RecordInsertBegins
    \/ InsertFails
    \/ InsertItem
    \/ Commit
    \/ EndOfFile

\* A run that has a next statement executes it.
SpecFair == Spec /\ WF_vars(LoopStep)

\* Runs over a folder of one file that may also be terminated from outside.
InitInterrupt ==
    /\ Init
    /\ Len(files) = 1

NextInterrupted ==
    \/ Next
    \/ Interrupt

SpecInterrupt == InitInterrupt /\ [][NextInterrupted]_vars

(* ------------------- a file and a reordered copy of it ------------------- *)
\* File g holds the rows of file f of the same account, in some order.
ReorderedCopy(f, g) ==
    /\ g.bank_account_code = f.bank_account_code
    /\ Len(g.records) = Len(f.records)
    /\ \E p \in Permutations(1..Len(f.records)) :
           g.records = [i \in 1..Len(f.records) |-> f.records[p[i]]]

\* The folder holds a file and, listed after it, a reordered copy of it.
InitReorder ==
    /\ Init
    /\ Len(files) = 2
    /\ ReorderedCopy(files[1], files[2])

\* BankFileTransactions is constructed for every file of the folder whose account has
\* properties: __init__ ends with _set_transaction_id.
ReadBankFiles ==
    /\ pc = "idle"
    /\ batchIds = <<>>
    /\ batchIds' = [f \in 1..Len(files) |->
                       IF HasBankAccountProperties(files[f].bank_account_code)
                       THEN set_transaction_id(files[f].records, files[f].bank_account_code)
                       ELSE <<>>]
    /\ UNCHANGED <<table, ledger, txn, files, run, fileIdx, rowIdx, itemIdx, pc, doc, hist,
                   batch, batchCode, pureIn, storedAmounts, fetchedAmounts>>

NextReorder ==
    \/ Next
    \/ ReadBankFiles

SpecReorder == InitReorder /\ [][NextReorder]_vars

(* ------------------- a second process on the same file ------------------- *)
\* Another process running insert_gl_items_into_db on the same database file commits
\* the pair of the same record after this process's _gl_items_exist returned False and
\* before its first INSERT (no lock is held between the SELECT and the INSERT).
OtherProcessInserts ==
    /\ pc = "insert"
    /\ itemIdx = 0
    /\ txn = <<>>
    /\ table.account_columns
    /\ ~gl_items_exist(doc.transaction_id, ledger)
    /\ ledger' = ledger \o <<InsertedRow(doc.items[1]), InsertedRow(doc.items[2])>>
    /\ UNCHANGED <<table, txn, files, run, fileIdx, rowIdx, itemIdx, pc, doc, hist, batch,
                   batchCode, batchIds, pureIn, storedAmounts, fetchedAmounts>>

NextRace ==
    \/ Next
    \/ OtherProcessInserts

SpecRace == InitInterrupt /\ [][NextRace]_vars

(* ------------------- one document, any account and record ---------------- *)
Alphabet == {"A", "B", "a"}

Descriptions == UNION {[1..k -> Alphabet] : k \in 1..MaxDescLen}

Amounts == {-4250, -450, 0, 450}

DocRecords ==
    {[Date |-> D1, Amount |-> a, Description |-> d] : a \in Amounts, d \in Descriptions}
    \cup {[Date |-> D1, Amount |-> a, Description |-> <<"A">>, CheckNo |-> <<"7">>,
           Investment |-> <<"F">>, Symbol |-> <<"S">>] : a \in Amounts}

RulePool ==
    {[searchString |-> <<"A">>, glAccount |-> "6100", bp |-> "CAFE"],
     [searchString |-> <<"A", "B">>, glAccount |-> "6200", bp |-> "SHOP"],
     [searchString |-> <<"a">>, glAccount |-> "4000", bp |-> "PAYER"],
     [searchString |-> <<"B">>, glAccount |-> "9999", bp |-> "GHOST"]}

DocProperties ==
    {[bankAccountCode |-> CHK, bankAccountType |-> t, currencyUnit |-> "USD",
      balanceSheetAccount |-> b, glMapping |-> m,
      missingGlMappingDefault |-> MissingGlMappingDefault] :
        t \in {"Debit", "Credit"}, b \in {"1000", "1999"}, m \in SeqUpTo(RulePool, MaxRules)}

Idle ==
    /\ table = AbsentTable
    /\ ledger = <<>>
    /\ txn = <<>>
    /\ files = <<>>
    /\ run = 0
    /\ fileIdx = 0
    /\ rowIdx = 0
    /\ itemIdx = 0
    /\ hist = <<>>
    /\ storedAmounts = <<>>
    /\ fetchedAmounts = <<>>

InitDoc ==
    /\ Idle
    /\ pc = "new"
    /\ doc = NoDocument
    /\ pureIn \in [record : DocRecords, properties : DocProperties]
    /\ batch = <<>>
    /\ batchCode = <<>>
    /\ batchIds = <<>>

\* GLDocument(bank_transaction, bank_account, chart_of_accounts, constants)
Construct ==
    /\ pc = "new"
    /\ doc' = GLDocument(pureIn.record, pureIn.properties)
    /\ pc' = "constructed"
    /\ UNCHANGED <<table, ledger, txn, files, run, fileIdx, rowIdx, itemIdx, hist, batch,
                   batchCode, batchIds, pureIn, storedAmounts, fetchedAmounts>>

NextDoc == Construct

SpecDoc == InitDoc /\ [][NextDoc]_vars

(* ------------- one document, stored and read back from gl_items --------- *)
StoreAmounts == {-123456, -4250, -451, -1, 0, 1, 99, 100}

StoreRecords == {[Date |-> D1, Amount |-> a, Description |-> <<"A">>] : a \in StoreAmounts}

InitStore ==
    /\ Idle
    /\ pc = "new"
    /\ doc = NoDocument
    /\ pureIn \in [record : StoreRecords, properties : DocProperties]
    /\ batch = <<>>
    /\ batchCode = <<>>
    /\ batchIds = <<>>

\* The INSERT binds item.transaction_amount, a Decimal: sqlite3 stores adapt_decimal of it.
BindAmounts ==
    /\ pc = "constructed"
    /\ doc.raised = None
    /\ storedAmounts' = [i \in 1..Len(doc.items) |-> adapt_decimal(doc.items[i].transaction_amount)]
    /\ pc' = "bound"
    /\ UNCHANGED <<table, ledger, txn, files, run, fileIdx, rowIdx, itemIdx, hist, batch,
                   batchCode, batchIds, doc, pureIn, fetchedAmounts>>

\* SELECT * FROM gl_items on a connection with PARSE_DECLTYPES: the DECIMAL column is
\* passed through convert_decimal.
FetchAmounts ==
    /\ pc = "bound"
    /\ fetchedAmounts' = [i \in 1..Len(storedAmounts) |-> convert_decimal(IntBytes(storedAmounts[i]))]
    /\ pc' = "fetched"
    /\ UNCHANGED <<table, ledger, txn, files, run, fileIdx, rowIdx, itemIdx, hist, batch,
                   batchCode, batchIds, doc, pureIn, storedAmounts>>

NextStore ==
    \/ Construct
    \/ BindAmounts
    \/ FetchAmounts

SpecStore == InitStore /\ [][NextStore]_vars

(* ------------- insert_gl_items_into_db on any two-item document ---------- *)
\* insert_gl_items_into_db reads self.items, a list any caller can change after the
\* constructor returned: the documents handed to it are those GLDocument builds, with
\* the amount of the offsetting item as built or replaced.
AlteredAmounts == {-4250, 0, 1, 450}

AlteredDocuments ==
    LET built == {GLDocument(r, BankAccountProperties[CHK]) : r \in StoreRecords}
    IN  built \cup {[d EXCEPT !.items[2].transaction_amount = a] :
                        d \in built, a \in AlteredAmounts}

\* The pair of another transaction, stored before the call.
StoredBefore ==
    LET d == GLDocument(RecSalary, BankAccountProperties[CHK])
    IN  <<InsertedRow(d.items[1]), InsertedRow(d.items[2])>>

InitInsert ==
    /\ table \in FullTables
    /\ ledger \in {<<>>, StoredBefore}
    /\ txn = <<>>
    /\ files = <<>>
    /\ run = 1
    /\ fileIdx = 0
    /\ rowIdx = 0
    /\ itemIdx = 0
    /\ pc = "called"
    /\ doc \in AlteredDocuments
    /\ hist = <<RunEntry>>
    /\ batch = <<>>
    /\ batchCode = <<>>
    /\ batchIds = <<>>
    /\ pureIn = None
    /\ storedAmounts = <<>>
    /\ fetchedAmounts = <<>>

\* A variant that enters the loop over the items without the assertion.
InsertGlItemsIntoDbUnchecked ==
    /\ pc = "called"
    /\ itemIdx' = 0
    /\ pc' = "insert"
    /\ UNCHANGED <<table, ledger, txn, files, run, fileIdx, rowIdx, doc, hist, batch,
                   batchCode, batchIds, pureIn, storedAmounts, fetchedAmounts>>

\* insert_gl_items_into_db is entered: total_amount is summed and asserted to be zero.
InsertGlItemsIntoDb ==
    /\ pc = "called"
    /\ itemIdx' = 0
    /\ IF SumAmounts(doc.items) = 0
       THEN pc' = "insert" /\ UNCHANGED <<hist, txn>>
       ELSE Ended(hist, "crashed", "AssertionError")
    /\ UNCHANGED <<table, ledger, files, run, fileIdx, rowIdx, doc, batch, batchCode,
                   batchIds, pureIn, storedAmounts, fetchedAmounts>>

NextInsert ==
    \/ InsertGlItemsIntoDb
    \/ InsertItem
    \/ Commit

SpecInsert == InitInsert /\ [][NextInsert]_vars

(* ---------------------- the identities of two records ------------------- *)
D2 == [year |-> 2024, month |-> 3, day |-> 2]

\* What a row carries beside date, amount and description: the check number, the
\* investment, and the file and the row it was read from.
OtherColumns == [CheckNo |-> <<"7">>, Investment |-> <<"F">>, Symbol |-> <<"S">>,
                 CSVFile |-> <<"f", "2">>, RowIndex |-> <<"9">>]

IdentityRecords ==
    LET plain == {[Date |-> d, Amount |-> a, Description |-> t] :
                     d \in {D1, D2}, a \in {-450, 450}, t \in {<<"A">>, <<"A", "B">>}}
    IN  plain \cup {r @@ OtherColumns : r \in plain}

\* Account codes, as the part of a file name before the first "-" may be.
IdentityCodes == {<<"A">>, <<"B", "A">>, CHK}

IdentityInputs == [record : IdentityRecords, bank_account_code : IdentityCodes]

InitIdentity ==
    /\ Idle
    /\ pc = "pair"
    /\ doc = NoDocument
    /\ pureIn \in [one : IdentityInputs, other : IdentityInputs]
    /\ batch = <<>>
    /\ batchCode = <<>>
    /\ batchIds = <<>>

\* Both records get their id from GLDocument._assign_transaction_id, and their digest
\* from BankFileTransactions._set_transaction_id as the only row of a batch.
AssignBoth ==
    /\ pc = "pair"
    /\ batchIds' =
           [document |->
                <<assign_transaction_id(pureIn.one.record,
                                        [bankAccountCode |-> pureIn.one.bank_account_code]),
                  assign_transaction_id(pureIn.other.record,
                                        [bankAccountCode |-> pureIn.other.bank_account_code])>>,
            row |->
                <<set_transaction_id(<<pureIn.one.record>>, pureIn.one.bank_account_code)[1],
                  set_transaction_id(<<pureIn.other.record>>, pureIn.other.bank_account_code)[1]>>]
    /\ pc' = "assigned"
    /\ UNCHANGED <<table, ledger, txn, files, run, fileIdx, rowIdx, itemIdx, hist, batch,
                   batchCode, doc, pureIn, storedAmounts, fetchedAmounts>>

NextIdentity == AssignBoth

SpecIdentity == InitIdentity /\ [][NextIdentity]_vars

(* ------------------------ one batch, any rows ---------------------------- *)
BatchPool ==
    {[Date |-> D1, Amount |-> a, Description |-> d] :
        a \in {-450, 450}, d \in {<<"A">>, <<"A", "B">>}}

InitBatch ==
    /\ Idle
    /\ pc = "read"
    /\ doc = NoDocument
    /\ pureIn = None
    /\ batch \in SeqUpTo(BatchPool, MaxBatch)
    /\ batchCode \in {CHK, CC}
    /\ batchIds = <<>>

\* BankFileTransactions.__init__ reaches self._set_transaction_id()
SetTransactionId ==
    /\ pc = "read"
    /\ batchIds' = set_transaction_id(batch, batchCode)
    /\ pc' = "identified"
    /\ UNCHANGED <<table, ledger, txn, files, run, fileIdx, rowIdx, itemIdx, hist, batch,
                   batchCode, doc, pureIn, storedAmounts, fetchedAmounts>>

NextBatch == SetTransactionId

SpecBatch == InitBatch /\ [][NextBatch]_vars

(* ============================== properties =============================== *)
Constructed == pc = "constructed"

Built == Constructed /\ doc.raised = None

\* needle occurs in haystack: haystack is some text, then needle, then some text.
OccursIn(needle, haystack) ==
    \E i \in 0..Len(haystack) : \E j \in i..Len(haystack) :
        SubSeq(haystack, 1, i) \o needle \o SubSeq(haystack, j + 1, Len(haystack)) = haystack

MatchingRules(properties, description) ==
    {i \in 1..Len(properties.glMapping) :
        OccursIn(properties.glMapping[i].searchString, description)}

\* C1: every document that is constructed holds exactly two items whose amounts sum to
\* zero, that carry the same currency, and of which one is a debit and the other a credit.
C1_BalancedPair ==
    Built =>
        /\ Len(doc.items) = 2
        /\ doc.items[1].transaction_amount + doc.items[2].transaction_amount = 0
        /\ doc.items[1].currency_unit = doc.items[2].currency_unit
        /\ {doc.items[1].debit_credit_indicator, doc.items[2].debit_credit_indicator} = {"D", "C"}

\* A Credit-type account, no rule matching, a non-zero amount: a balanced pair is built.
C1_Witness ==
    /\ Built
    /\ pureIn.properties.bankAccountType = "Credit"
    /\ MatchingRules(pureIn.properties, pureIn.record.Description) = {}
    /\ pureIn.record.Amount = 450
    /\ doc.items[1].transaction_amount = 450
    /\ doc.items[2].transaction_amount = -450

\* C8: the mapping of a description that some rule matches is the first rule, in the
\* order of glMapping, whose search string occurs in the description (case-sensitive),
\* also when a later matching rule is more specific.
C8_FirstMatchWins ==
    Constructed =>
        LET matching == MatchingRules(pureIn.properties, pureIn.record.Description)
        IN  matching # {} =>
                \E i \in matching :
                    /\ \A j \in matching : i <= j
                    /\ doc.gl_mapping = pureIn.properties.glMapping[i]

\* Two rules match "AB", the search string of the first occurs in that of the second,
\* and the first, less specific, rule is the mapping.
C8_Witness ==
    /\ Constructed
    /\ pureIn.record.Description = <<"A", "B">>
    /\ Len(pureIn.properties.glMapping) = 2
    /\ pureIn.properties.glMapping[1].searchString = <<"A">>
    /\ pureIn.properties.glMapping[2].searchString = <<"A", "B">>
    /\ doc.gl_mapping.glAccount = "6100"

\* The category of the transaction, from the sign convention of the account type.
IsDeposit(properties, Amount) ==
    \/ properties.bankAccountType = "Debit" /\ Amount >= 0
    \/ properties.bankAccountType = "Credit" /\ Amount < 0

\* C9: when no rule matches the description, the mapping is the default: the revenue
\* default account for a deposit, the expense default account for a withdrawal, and the
\* unknown business partner in both cases.
C9_Fallback ==
    Constructed =>
        (MatchingRules(pureIn.properties, pureIn.record.Description) = {} =>
            /\ doc.gl_mapping.glAccount =
                   IF IsDeposit(pureIn.properties, pureIn.record.Amount)
                   THEN pureIn.properties.missingGlMappingDefault.glAccountRevenue
                   ELSE pureIn.properties.missingGlMappingDefault.glAccountExpense
            /\ doc.gl_mapping.bp = pureIn.properties.missingGlMappingDefault.unknownBp)

\* A deposit on a Credit-type account (negative amount) that no rule matches goes to the
\* revenue default, although the account has rules.
C9_Witness ==
    /\ Constructed
    /\ pureIn.properties.bankAccountType = "Credit"
    /\ pureIn.record.Amount = -450
    /\ Len(pureIn.properties.glMapping) = 2
    /\ MatchingRules(pureIn.properties, pureIn.record.Description) = {}
    /\ doc.gl_mapping.glAccount = "4000"
    /\ doc.gl_mapping.bp = "UNKNOWN"

\* C10: the category is Deposit for a Debit-type account with amount >= 0 and for a
\* Credit-type account with amount < 0, and Withdrawal in the two other cases.
C10_Classifier ==
    Constructed =>
        LET t == pureIn.properties.bankAccountType
            a == pureIn.record.Amount
            c == doc.bank_transaction_category
        IN  /\ c \in {bankTransactionCategories.deposit, bankTransactionCategories.withdrawal}
            /\ (t = "Debit" /\ a >= 0) => c = bankTransactionCategories.deposit
            /\ (t = "Debit" /\ a < 0) => c = bankTransactionCategories.withdrawal
            /\ (t = "Credit" /\ a >= 0) => c = bankTransactionCategories.withdrawal
            /\ (t = "Credit" /\ a < 0) => c = bankTransactionCategories.deposit

\* The boundary: amount zero on a Credit-type account is a withdrawal.
C10_Witness ==
    /\ Constructed
    /\ pureIn.properties.bankAccountType = "Credit"
    /\ pureIn.record.Amount = 0
    /\ doc.bank_transaction_category = bankTransactionCategories.withdrawal

(* ------------------------------ ingestion -------------------------------- *)
\* The rows of a table with a transaction id and an item id.
RowsOf(rows, transaction_id, item_id) ==
    {i \in 1..Len(rows) : /\ rows[i].transaction_id = transaction_id
                          /\ rows[i].transaction_item_id = item_id}

StoredOnce(rows, transaction_id) ==
    /\ Cardinality(RowsOf(rows, transaction_id, "001")) = 1
    /\ Cardinality(RowsOf(rows, transaction_id, "002")) = 1

\* C2: when the ingestion loop has run to its end and is run again over the same files
\* without a reset in between, the first run has left every transaction it built posted
\* exactly once, and the second run inserts no row and leaves the ledger as it found it.
C2_SecondRunInsertsNothing ==
    \A k \in 1..(Len(hist) - 1) :
        (hist[k].kind = "run" /\ hist[k].outcome = "done" /\ hist[k + 1].kind = "run") =>
            /\ hist[k + 1].inserted = 0
            /\ (k + 1 = Len(hist)) => (ledger = hist[k + 1].ledgerStart /\ txn = <<>>)
            /\ \A n \in 1..Len(hist[k].ids) :
                   hist[k].ids[n].raised = None =>
                       StoredOnce(hist[k + 1].ledgerStart, hist[k].ids[n].transaction_id)

\* Two complete runs, the first of which posted two transactions.
C2_Witness ==
    /\ Len(hist) = 2
    /\ pc = "idle"
    /\ hist[1].kind = "run" /\ hist[1].outcome = "done" /\ hist[1].inserted = 4
    /\ hist[2].kind = "run" /\ hist[2].outcome = "done"
    /\ Len(hist[2].ids) >= 2
    /\ Len(ledger) = 4

\* C3: whatever files were ingested and however often, every transaction id in the
\* ledger has exactly one row with item id 001 and exactly one with item id 002.
C3_AtMostOnePair ==
    \A i \in 1..Len(ledger) : StoredOnce(ledger, ledger[i].transaction_id)

\* Two partially overlapping files of one account, ingested twice.
C3_Witness ==
    /\ Len(files) = 2
    /\ files[1] = [bank_account_code |-> CHK, records |-> <<RecCoffee>>]
    /\ files[2] = [bank_account_code |-> CHK, records |-> <<RecCoffee, RecSalary>>]
    /\ run = 2
    /\ pc = "idle"
    /\ Last(hist).outcome = "done"
    /\ Len(Last(hist).ids) = 3
    /\ Len(ledger) = 4

\* C4: in every state of the committed ledger, also after an interruption between the
\* first INSERT, the second INSERT and the commit, each stored row has the other leg of
\* its transaction stored with it.
C4_BothLegsOrNeither ==
    \A i \in 1..Len(ledger) :
        \E j \in 1..Len(ledger) :
            /\ ledger[j].transaction_id = ledger[i].transaction_id
            /\ ledger[j].transaction_item_id # ledger[i].transaction_item_id

\* One run was interrupted after the first INSERT, the next after the second INSERT of a
\* later record, before the commit; the ledger holds the pair committed in between.
C4_Witness ==
    /\ Len(hist) = 2
    /\ hist[1].outcome = "interrupted" /\ hist[1].rolledBack = 1
    /\ hist[2].outcome = "interrupted" /\ hist[2].rolledBack = 2
    /\ Len(ledger) = 2

\* Two rows of one file that agree in every field.
Twins(f, r1, r2) ==
    /\ f \in 1..Len(files)
    /\ r1 < r2
    /\ r2 <= Len(files[f].records)
    /\ files[f].records[r1] = files[f].records[r2]

\* The entry of a run's log for a row of a file.
NotedFor(entry, f, r) == {n \in 1..Len(entry.ids) : entry.ids[n].file = f /\ entry.ids[n].row = r}

\* C5: two identical records of one file get the ids <digest>_1 and <digest>_2, which
\* differ, and a run over an empty ledger that reaches its end has inserted the pair of
\* each of them.
C5_TwinsBothInserted ==
    \A k \in 1..Len(hist) : \A f \in 1..Len(files) :
        (hist[k].kind = "run" /\ Twins(f, 1, 2)) =>
            \A m \in NotedFor(hist[k], f, 1) : \A n \in NotedFor(hist[k], f, 2) :
                LET first == hist[k].ids[m].transaction_id
                    second == hist[k].ids[n].transaction_id
                IN  /\ first.digest = second.digest
                    /\ first.suffix = <<"_", "1">>
                    /\ second.suffix = <<"_", "2">>
                    /\ first # second
                    /\ (k = Len(hist) /\ hist[k].outcome = "done" /\ hist[k].ledgerStart = <<>>) =>
                           (StoredOnce(ledger, first) /\ StoredOnce(ledger, second))

\* C6: the ids assigned to the records of one file in one run are pairwise distinct.
C6_IdsDistinctInBatch ==
    \A k \in 1..Len(hist) :
        \A m, n \in 1..Len(hist[k].ids) :
            (m # n /\ hist[k].ids[m].file = hist[k].ids[n].file) =>
                hist[k].ids[m].transaction_id # hist[k].ids[n].transaction_id

\* C7: two runs over the same files assign the same id to the record at every place,
\* whatever the ledger holds when the run starts.
C7_SameIdsEveryRun ==
    \A j, k \in 1..Len(hist) :
        (j < k /\ hist[j].kind = "run" /\ hist[k].kind = "run") =>
            \A n \in 1..Len(hist[j].ids) :
                n <= Len(hist[k].ids) =>
                    /\ hist[j].ids[n].file = hist[k].ids[n].file
                    /\ hist[j].ids[n].row = hist[k].ids[n].row
                    /\ hist[j].ids[n].transaction_id = hist[k].ids[n].transaction_id

\* The second run starts from the ledger the first run filled and passes two records.
C7_Witness ==
    /\ Len(hist) = 2
    /\ hist[1].kind = "run" /\ hist[2].kind = "run"
    /\ hist[1].ledgerStart = <<>>
    /\ Len(hist[2].ledgerStart) = 4
    /\ Len(hist[2].ids) = 2

(* ------------------------------ the two legs ----------------------------- *)
\* C11: the first item of a document (item id 001) is a credit when the category is
\* Deposit and a debit when it is Withdrawal; its amount is the absolute value of the
\* record's amount when it is a debit and the negated absolute value when it is a credit.
\* A withdrawal of 42.50 from a Debit-type account with no matching rule is D, +42.50.
C11_PrimaryLeg ==
    (Constructed /\ doc.raised # "ValueError") =>
        LET first == doc.items[1]
            raw == pureIn.record.Amount
            magnitude == IF raw < 0 THEN 0 - raw ELSE raw
        IN  /\ first.transaction_item_id = "001"
            /\ (doc.bank_transaction_category = bankTransactionCategories.deposit)
                   => first.debit_credit_indicator = dcIndicators.credit
            /\ (doc.bank_transaction_category = bankTransactionCategories.withdrawal)
                   => first.debit_credit_indicator = dcIndicators.debit
            /\ (first.debit_credit_indicator = dcIndicators.debit)
                   => first.transaction_amount = magnitude
            /\ (first.debit_credit_indicator = dcIndicators.credit)
                   => first.transaction_amount = 0 - magnitude
            /\ (/\ pureIn.properties.bankAccountType = "Debit"
                /\ raw = -4250
                /\ MatchingRules(pureIn.properties, pureIn.record.Description) = {})
                   => (first.debit_credit_indicator = "D" /\ first.transaction_amount = 4250)

\* The withdrawal of 42.50 from a Debit-type account that no rule matches.
C11_Witness ==
    /\ Built
    /\ pureIn.properties.bankAccountType = "Debit"
    /\ pureIn.record.Amount = -4250
    /\ pureIn.properties.glMapping # <<>>
    /\ MatchingRules(pureIn.properties, pureIn.record.Description) = {}
    /\ doc.items[1].debit_credit_indicator = "D"
    /\ doc.items[1].transaction_amount = 4250
    /\ doc.items[1].account_id = "6000"

\* C12: the second item of a document (item id 002) is posted to the balance sheet
\* account of the bank account with the negated amount and the opposite indicator of
\* the first item, has the first item's transaction id, date, year, period, currency,
\* description, business partner, bank account code, investment name and symbol and
\* check number, and has the account type and taxability the chart gives for the
\* balance sheet account.
C12_OffsettingLeg ==
    Built =>
        LET first == doc.items[1]
            second == doc.items[2]
            bs == pureIn.properties.balanceSheetAccount
        IN  /\ second.transaction_item_id = "002"
            /\ second.account_id = bs
            /\ second.transaction_amount = 0 - first.transaction_amount
            /\ {first.debit_credit_indicator, second.debit_credit_indicator}
                   = {dcIndicators.debit, dcIndicators.credit}
            /\ \A field \in {"transaction_id", "transaction_date", "posting_year",
                              "posting_period", "currency_unit", "transaction_description",
                              "business_partner", "bank_account_code", "investment_name",
                              "investment_symbol", "check_no"} :
                   second[field] = first[field]
            /\ second.transaction_id = doc.transaction_id
            /\ second.account_type = ChartAccounts[bs].accountType
            /\ second.is_taxable = ChartAccounts[bs].isTaxable

\* A record with a check number and an investment, mapped by a rule to a taxable
\* expense account: the second item is on the asset account 1000, not taxable.
C12_Witness ==
    /\ Built
    /\ "CheckNo" \in DOMAIN pureIn.record
    /\ doc.items[1].account_id = "6100"
    /\ doc.items[1].is_taxable
    /\ doc.items[2].account_id = "1000"
    /\ doc.items[2].account_type = "Asset"
    /\ ~doc.items[2].is_taxable
    /\ doc.items[2].check_no = <<"7">>
    /\ doc.items[2].investment_symbol = <<"S">>
    /\ doc.items[2].transaction_amount = 0 - doc.items[1].transaction_amount

(* ----------------------------- error handling ---------------------------- *)
\* The account the mapping of the record being processed resolves to.
ResolvedAccount ==
    get_gl_mapping_for_search_string(
        CurrentProperties, CurrentRecord.Description,
        determine_bank_transaction_category(CurrentProperties, CurrentRecord.Amount)).glAccount

\* The loop is at a record whose resolved account the chart does not have.
AtRecordOfUnknownAccount ==
    /\ pc = "records"
    /\ rowIdx < Len(files[fileIdx].records)
    /\ ResolvedAccount \notin DOMAIN ChartAccounts

\* C13: when the account resolved for a record is not in the chart of accounts, the
\* construction of its document fails with the account-not-found error (ValueError),
\* no row is inserted for the record, and the loop goes on to the next record of the
\* same file; no row of the ledger ever carries the id of such a record.
C13_UnknownAccountSkipsRecord ==
    /\ [][AtRecordOfUnknownAccount =>
              /\ doc'.raised = "ValueError"
              /\ doc'.items = <<>>
              /\ ledger' = ledger
              /\ txn' = txn
              /\ pc' = "records"
              /\ fileIdx' = fileIdx
              /\ rowIdx' = rowIdx + 1]_vars
    /\ [](\A k \in 1..Len(hist) : \A n \in 1..Len(hist[k].ids) :
              hist[k].ids[n].raised = "ValueError" =>
                  \A i \in 1..Len(ledger) :
                      ledger[i].transaction_id # hist[k].ids[n].transaction_id)

\* The first record of a file resolves to account 9999, which the chart does not have;
\* the second record of the file is posted in the same run.
C13_Witness ==
    /\ pc = "idle"
    /\ Len(hist) = 1
    /\ hist[1].outcome = "done"
    /\ Len(hist[1].ids) = 2
    /\ hist[1].ids[1].file = 1 /\ hist[1].ids[1].row = 1
    /\ hist[1].ids[1].raised = "ValueError"
    /\ hist[1].ids[2].file = 1 /\ hist[1].ids[2].row = 2
    /\ hist[1].ids[2].raised = None
    /\ Len(ledger) = 2
    /\ ledger[1].transaction_id = hist[1].ids[2].transaction_id

\* The loop is about to take a file whose account code the directory does not have.
AtFileOfUnknownAccount ==
    /\ pc = "files"
    /\ fileIdx < Len(files)
    /\ files[fileIdx + 1].bank_account_code \notin DOMAIN BankAccountProperties

\* C14: when the account code of a file has no entry in the account directory, the file
\* is skipped as a whole: no record of it is read (none gets an id), no row is inserted,
\* the ledger is unchanged, and the loop goes on to the next file.
C14_UnknownCodeSkipsFile ==
    /\ [][AtFileOfUnknownAccount =>
              /\ fileIdx' = fileIdx + 1
              /\ pc' = "files"
              /\ ledger' = ledger
              /\ txn' = txn
              /\ hist' = hist]_vars
    /\ [](\A k \in 1..Len(hist) : \A n \in 1..Len(hist[k].ids) :
              files[hist[k].ids[n].file].bank_account_code \in DOMAIN BankAccountProperties)

\* The first file of the folder has an unknown code, the second is posted in the same run.
C14_Witness ==
    /\ pc = "idle"
    /\ Len(files) = 2
    /\ files[1].bank_account_code \notin DOMAIN BankAccountProperties
    /\ Len(files[1].records) > 0
    /\ Len(hist) = 1
    /\ hist[1].outcome = "done"
    /\ Len(hist[1].ids) = 1
    /\ hist[1].ids[1].file = 2
    /\ Len(ledger) = 2

\* C15: a failure that affects one record (while its first or its second item is built,
\* at the assertion of the total, or at the INSERT) never ends the run: no run ends
\* with an exception raised for a record.
C15_RecordFailureNeverEndsRun ==
    \A k \in 1..Len(hist) :
        hist[k].kind = "run" =>
            hist[k].error \notin {"ValueError", "KeyError", "AssertionError", "IntegrityError"}

\* The next INSERT of the loop over the items has a key that is already stored.
AtInsertOfStoredKey ==
    /\ pc = "insert"
    /\ itemIdx < Len(doc.items)
    /\ table.account_columns
    /\ table.primary_key
    /\ \E i \in 1..Len(ledger) :
           /\ ledger[i].transaction_id = doc.items[itemIdx + 1].transaction_id
           /\ ledger[i].transaction_item_id = doc.items[itemIdx + 1].transaction_item_id

\* C16: when an INSERT violates the primary key although the exists check before it was
\* false, the record is skipped, the stored rows stay as they are, and the run goes on
\* with the next record.
C16_KeyViolationSkipsRecord ==
    [][AtInsertOfStoredKey =>
          /\ ledger' = ledger
          /\ pc' = "records"
          /\ fileIdx' = fileIdx
          /\ rowIdx' = rowIdx + 1]_vars

\* C17: the table made by create_gl_table has the primary key (transaction_id,
\* transaction_item_id); an INSERT of a row whose key is stored fails with the
\* constraint violation (IntegrityError) and leaves every stored row as it is.
C17_StoredKeyRejected ==
    /\ [][RefreshGlItemsTable => table'.primary_key]_vars
    /\ [][AtInsertOfStoredKey =>
              /\ ledger' = ledger
              /\ txn' = <<>>
              /\ hist'[Len(hist')].error = "IntegrityError"]_vars

\* The pair another process stored is in the ledger, once and unchanged, after this
\* process's INSERT of the same key was rejected.
C17_Witness ==
    /\ hist # <<>>
    /\ hist[Len(hist)].error = "IntegrityError"
    /\ table.primary_key
    /\ Len(ledger) = 2
    /\ ledger = <<InsertedRow(doc.items[1]), InsertedRow(doc.items[2])>>

(* ------------------------------ interruption ----------------------------- *)
\* The ledger an uninterrupted run over the folder leaves, started on the rows given:
\* file by file and record by record, the pair of every document that is built and
\* whose id is not yet stored is appended.
RECURSIVE PostRecords(_, _, _, _)
PostRecords(rows, properties, records, i) ==
    IF i > Len(records) THEN rows
    ELSE LET d == GLDocument(records[i], properties)
             stored == \E n \in 1..Len(rows) : rows[n].transaction_id = d.transaction_id
         IN  IF d.raised = None /\ ~stored
             THEN PostRecords(rows \o <<InsertedRow(d.items[1]), InsertedRow(d.items[2])>>,
                              properties, records, i + 1)
             ELSE PostRecords(rows, properties, records, i + 1)

RECURSIVE PostFolder(_, _, _)
PostFolder(rows, folder, f) ==
    IF f > Len(folder) THEN rows
    ELSE IF folder[f].bank_account_code \notin DOMAIN BankAccountProperties
    THEN PostFolder(rows, folder, f + 1)
    ELSE PostFolder(PostRecords(rows, BankAccountProperties[folder[f].bank_account_code],
                                folder[f].records, 1),
                    folder, f + 1)

\* The committed rows when the k-th entry of the log had ended.
LedgerAfter(k) == IF k = Len(hist) THEN ledger ELSE hist[k + 1].ledgerStart

\* C18: the pairs a run committed before it was interrupted stay in the ledger, and when
\* runs over the same files, none preceded by a reset, are interrupted and a later one
\* reaches its end, the ledger is the one an uninterrupted run would have left, with
\* every transaction in it posted exactly once.
C18_RerunAfterInterruption ==
    /\ \A k \in 1..Len(hist) :
           (hist[k].kind = "run" /\ hist[k].outcome = "interrupted") =>
               /\ Len(LedgerAfter(k)) = Len(hist[k].ledgerStart) + hist[k].inserted
               /\ SubSeq(LedgerAfter(k), 1, Len(hist[k].ledgerStart)) = hist[k].ledgerStart
    /\ \A j \in 1..Len(hist) : \A k \in (j + 1)..Len(hist) :
           (/\ \A m \in j..k : hist[m].kind = "run"
            /\ \A m \in j..(k - 1) : hist[m].outcome = "interrupted"
            /\ hist[k].outcome = "done") =>
               /\ LedgerAfter(k) = PostFolder(hist[j].ledgerStart, files, 1)
               /\ \A i \in 1..Len(LedgerAfter(k)) :
                      StoredOnce(LedgerAfter(k), LedgerAfter(k)[i].transaction_id)

\* A run is interrupted after it committed the first pair and while the second is in the
\* open transaction; the rerun posts the second pair and reaches the end.
C18_Witness ==
    /\ pc = "idle"
    /\ Len(hist) = 2
    /\ hist[1].kind = "run" /\ hist[1].outcome = "interrupted"
    /\ hist[1].inserted = 2 /\ hist[1].rolledBack = 1
    /\ hist[2].kind = "run" /\ hist[2].outcome = "done"
    /\ Len(hist[2].ledgerStart) = 2
    /\ hist[2].inserted = 2
    /\ Len(ledger) = 4

(* --------------------------------- schema -------------------------------- *)
\* C19: the table the reset creates has every column the INSERT names, account_type and
\* is_taxable among them, and a run that follows the reset does not have its INSERT
\* rejected by the table.
C19_FreshTableHasEveryColumn ==
    \A k \in 1..Len(hist) :
        hist[k].kind = "refresh" =>
            /\ (k = Len(hist)) => (table.exists /\ table.account_columns)
            /\ (k < Len(hist) /\ hist[k + 1].kind = "run")
                   => hist[k + 1].error # "OperationalError"

\* C20: an amount of at most two decimal places is stored as the integer d * 100 and
\* read back as d, whether positive, negative or zero; the stored integers of the two
\* items of a document sum to zero.
C20_AmountRoundTrip ==
    /\ (pc \in {"bound", "fetched"}) =>
           /\ Len(storedAmounts) = 2
           /\ \A i \in 1..2 : storedAmounts[i] = doc.items[i].transaction_amount
           /\ storedAmounts[1] + storedAmounts[2] = 0
    /\ (pc = "fetched") =>
           /\ Len(fetchedAmounts) = 2
           /\ \A i \in 1..2 : fetchedAmounts[i] = doc.items[i].transaction_amount

\* -4.51 is stored as -451 and 451 and read back as -4.51 and 4.51.
C20_Witness ==
    /\ pc = "fetched"
    /\ pureIn.record.Amount = -451
    /\ {storedAmounts[1], storedAmounts[2]} = {-451, 451}
    /\ {fetchedAmounts[1], fetchedAmounts[2]} = {-451, 451}
    /\ fetchedAmounts[1] = doc.items[1].transaction_amount

(* ------------------------------- zero amount ----------------------------- *)
\* C21, as stated: a transaction with amount exactly zero is classified as Deposit,
\* whatever the type of the account.
C21_ZeroIsDeposit ==
    (Constructed /\ pureIn.record.Amount = 0) =>
        doc.bank_transaction_category = bankTransactionCategories.deposit

\* C21: a transaction with amount exactly zero takes the non-negative branch of the
\* classifier: it is a Deposit on a Debit-type account and a Withdrawal on a Credit-type
\* account.
C21_ZeroTakesNonNegativeBranch ==
    (Constructed /\ pureIn.record.Amount = 0) =>
        /\ (pureIn.properties.bankAccountType = "Debit")
               => doc.bank_transaction_category = bankTransactionCategories.deposit
        /\ (pureIn.properties.bankAccountType = "Credit")
               => doc.bank_transaction_category = bankTransactionCategories.withdrawal
        /\ \A props \in DocProperties :
               determine_bank_transaction_category(props, 0)
                   = determine_bank_transaction_category(props, 450)

\* Amount zero on a Debit-type account: a deposit, posted as a credit of 0 to the revenue
\* default.
C21_Witness ==
    /\ Built
    /\ pureIn.record.Amount = 0
    /\ pureIn.properties.bankAccountType = "Debit"
    /\ doc.bank_transaction_category = bankTransactionCategories.deposit
    /\ MatchingRules(pureIn.properties, pureIn.record.Description) = {}
    /\ doc.items[1].account_id = "4000"
    /\ doc.items[1].debit_credit_indicator = "C"
    /\ doc.items[1].transaction_amount = 0

(* ------------------------- identities of a batch ------------------------- *)
\* The rows before row i of the batch that agree with it in date, amount and description.
EarlierSame(i) == {j \in 1..(i - 1) : batch[j] = batch[i]}

\* C22: the identity of a row whose digest has not appeared earlier in the batch is the
\* bare digest; a later row with the same digest, and only such a row, has an ordinal
\* appended ("_" and a number from 1 on), and the ordinals of one digest differ.
C22_FirstOccurrenceIsBareDigest ==
    (pc = "identified") =>
        \A i \in 1..Len(batch) :
            /\ (EarlierSame(i) = {}) => batchIds[i].suffix = <<>>
            /\ (EarlierSame(i) # {}) =>
                   /\ \E k \in 1..Len(batch) : batchIds[i].suffix = <<"_">> \o NatStr(k)
                   /\ \A j \in EarlierSame(i) : batchIds[j] # batchIds[i]

(* --------------------------- the zero-sum check -------------------------- *)
\* C23: insert_gl_items_into_db checks that the amounts sum to zero before its first
\* INSERT: for a document whose two amounts do not sum to zero no INSERT is executed,
\* the call ends with the AssertionError, and the ledger is as it was before the call.
C23_CheckBeforeFirstInsert ==
    (doc.items[1].transaction_amount + doc.items[2].transaction_amount # 0) =>
        /\ txn = <<>>
        /\ ledger = hist[1].ledgerStart
        /\ hist[1].inserted = 0
        /\ pc \in {"called", "idle"}
        /\ (pc = "idle") => (hist[1].error = "AssertionError" /\ hist[1].rolledBack = 0)

\* A pair of -4.51 and 0 is handed in while another pair is stored: the call has ended
\* with the AssertionError and the ledger holds the other pair only.
C23_Witness ==
    /\ pc = "idle"
    /\ doc.items[1].transaction_amount = 451
    /\ doc.items[2].transaction_amount = 0
    /\ hist[1].error = "AssertionError"
    /\ ledger = StoredBefore
    /\ txn = <<>>

(* ---------------------------------- frame -------------------------------- *)
PlainColumns ==
    {"transaction_id", "transaction_item_id", "posting_year", "posting_period",
     "currency_unit", "debit_credit_indicator", "transaction_description", "account_id",
     "business_partner", "bank_account_code", "investment_name", "investment_symbol",
     "check_no", "account_type", "is_taxable"}

\* The stored row has the 17 columns of the INSERT with the values of the item: the date
\* as the text of its day, the amount as its number of hundredths, the rest as they are.
Verbatim(row, item) ==
    /\ DOMAIN row = PlainColumns \cup {"transaction_date", "transaction_amount"}
    /\ \A c \in PlainColumns : row[c] = item[c]
    /\ row.transaction_amount = item.transaction_amount
    /\ row.transaction_date = DateStr(item.transaction_date)

\* The step is the reset of the table.
IsReset == Len(hist') = Len(hist) + 1 /\ hist'[Len(hist')].kind = "refresh"

\* The step appends to the ledger the two rows of the document being inserted, and
\* passes to the next record.
AddsThePair ==
    /\ pc = "insert"
    /\ Len(ledger') = Len(ledger) + 2
    /\ SubSeq(ledger', 1, Len(ledger)) = ledger
    /\ Verbatim(ledger'[Len(ledger) + 1], doc.items[1])
    /\ Verbatim(ledger'[Len(ledger) + 2], doc.items[2])
    /\ rowIdx' = rowIdx + 1

\* The loop is at a record whose document is built and whose id is stored.
AtRecordAlreadyStored ==
    /\ pc = "records"
    /\ rowIdx < Len(files[fileIdx].records)
    /\ CurrentDocument.raised = None
    /\ \E i \in 1..Len(ledger) : ledger[i].transaction_id = CurrentDocument.transaction_id

\* C24: no step of the ingestion loop changes or removes a stored row: a step other than
\* the reset leaves the ledger as it is or appends exactly the two rows of the record
\* being processed, which have the values of the items that were built; a record whose
\* id is stored is passed without a change of the ledger and without an error.
C24_LedgerOnlyGrows ==
    /\ [][IF IsReset THEN TRUE
          ELSE IF ledger' = ledger THEN TRUE
          ELSE AddsThePair]_vars
    /\ [][AtRecordAlreadyStored =>
              /\ ledger' = ledger
              /\ txn' = txn
              /\ pc' = "records"
              /\ rowIdx' = rowIdx + 1]_vars

\* The pair of the second record of a file has been appended behind the pair of the first.
C24_Witness ==
    /\ pc = "records"
    /\ rowIdx = 2
    /\ Len(ledger) = 4
    /\ ledger[1].transaction_id # ledger[3].transaction_id
    /\ Verbatim(ledger[3], doc.items[1])
    /\ Verbatim(ledger[4], doc.items[2])
    /\ ledger[3].transaction_amount = -4250

(* ---------------------------------- reset -------------------------------- *)
\* C25: the reset of the table is executed only when no run is under way, before the
\* first record of the run that follows it, and never between two records of a run;
\* immediately after it the ledger is empty.
C25_ResetOnlyBetweenRuns ==
    /\ [][IsReset =>
              /\ pc = "idle"
              /\ pc' = "idle"
              /\ txn = <<>>
              /\ ledger' = <<>>
              /\ table'.exists]_vars
    /\ [](\A k \in 1..Len(hist) :
              /\ (hist[k].kind = "run" /\ hist[k].outcome = "running") => k = Len(hist)
              /\ (hist[k].kind = "refresh" /\ k < Len(hist) /\ hist[k + 1].kind = "run")
                     => hist[k + 1].ledgerStart = <<>>)

\* A run has stored a pair; the reset that follows has emptied the ledger.
C25_Witness ==
    /\ pc = "idle"
    /\ Len(hist) = 2
    /\ hist[1].kind = "run" /\ hist[1].inserted = 2
    /\ hist[2].kind = "refresh"
    /\ Len(hist[2].ledgerStart) = 2
    /\ ledger = <<>>

(* ------------------------ what the identity reads ------------------------ *)
\* The two records agree in date, amount, description and account code.
SameFourFacts ==
    /\ pureIn.one.record.Date = pureIn.other.record.Date
    /\ pureIn.one.record.Amount = pureIn.other.record.Amount
    /\ pureIn.one.record.Description = pureIn.other.record.Description
    /\ pureIn.one.bank_account_code = pureIn.other.bank_account_code

\* C26: two records that agree in date, amount, description and account code get the
\* same identity from GLDocument and the same digest from _set_transaction_id, whatever
\* their check number, investment name and symbol, file name and row index are.
C26_IdentityReadsFourFacts ==
    (pc = "assigned" /\ SameFourFacts) =>
        /\ batchIds.document[1] = batchIds.document[2]
        /\ batchIds.row[1].digest = batchIds.row[2].digest

\* One record carries a check number, an investment, a file name and a row index, the
\* other none of them; they agree in the four facts and have the same identity.
C26_Witness ==
    /\ pc = "assigned"
    /\ SameFourFacts
    /\ "CheckNo" \in DOMAIN pureIn.one.record
    /\ "CSVFile" \in DOMAIN pureIn.one.record
    /\ DOMAIN pureIn.other.record = {"Date", "Amount", "Description"}
    /\ batchIds.document[1] = batchIds.document[2]

\* C28: two records that differ in date, amount, description or account code never get
\* the same identity, from GLDocument or from _set_transaction_id.
C28_DifferentFactsDifferentIdentity ==
    (pc = "assigned" /\ ~SameFourFacts) =>
        /\ batchIds.document[1] # batchIds.document[2]
        /\ batchIds.row[1].digest # batchIds.row[2].digest

(* --------------------------- one writer, no clash ------------------------- *)
\* C27: with this process as the only writer, every INSERT the loop attempts is for a
\* key (transaction_id, transaction_item_id) that is neither stored nor in the open
\* transaction, and no run ends with the primary key's IntegrityError.
C27_InsertNeverCollides ==
    /\ \A k \in 1..Len(hist) : hist[k].error # "IntegrityError"
    /\ (AtItem /\ table.account_columns) =>
           /\ ~PrimaryKeyViolated(InsertedRow(doc.items[itemIdx + 1]), Visible)
           /\ \A i \in 1..Len(ledger) : ledger[i].transaction_id # doc.transaction_id

\* The second INSERT of a pair is about to run on a table with the primary key that
\* already stores the pair of another record.
C27_Witness ==
    /\ AtItem
    /\ itemIdx = 1
    /\ table.account_columns
    /\ table.primary_key
    /\ Len(ledger) >= 2
    /\ Len(txn) = 1
    /\ ~PrimaryKeyViolated(InsertedRow(doc.items[2]), Visible)

(* ------------------------------ row order -------------------------------- *)
\* The set of the ids of a TransactionID column.
IdSet(ids) == {ids[i] : i \in 1..Len(ids)}

\* The ids of one digest are digest_1 .. digest_k, k the number of rows with the digest.
NumberedPerDigest(ids) ==
    \A i \in 1..Len(ids) :
        LET k == Cardinality({j \in 1..Len(ids) : ids[j].digest = ids[i].digest})
        IN  {ids[j].suffix : j \in {j \in 1..Len(ids) : ids[j].digest = ids[i].digest}}
                = {<<"_">> \o NatStr(n) : n \in 1..k}

\* C29: _set_transaction_id gives a file and a reordered copy of it the same set of
\* ids, the ids of a digest occurring k times being digest_1 .. digest_k; and while the
\* loop processes the copy, listed after the file, it attempts no INSERT.
C29_RowOrderDoesNotMatter ==
    /\ batchIds # <<>> =>
           /\ IdSet(batchIds[1]) = IdSet(batchIds[2])
           /\ NumberedPerDigest(batchIds[1])
           /\ NumberedPerDigest(batchIds[2])
    /\ (pc # "idle" /\ fileIdx = 2) => (pc # "insert" /\ txn = <<>>)

\* The copy lists the two rows of the file in the other order; both files were given
\* their ids, the file's two pairs were inserted by this run, and the copy has been
\* processed to its end without a row added.
C29_Witness ==
    /\ batchIds # <<>>
    /\ Len(files[1].records) = 2
    /\ files[2].records # files[1].records
    /\ IdSet(batchIds[1]) = IdSet(batchIds[2])
    /\ batchIds[1] # batchIds[2]
    /\ pc = "records"
    /\ fileIdx = 2
    /\ rowIdx = 2
    /\ Last(hist).inserted = 4
    /\ Len(ledger) = 4

(* ------------------------------ termination ------------------------------ *)
\* The errors of the store.
StorageErrors == {"OperationalError", "IntegrityError"}

\* The records the loop has to visit: every row of every file whose account has properties.
ExpectedVisits ==
    {<<f, r>> : f \in {g \in 1..Len(files) :
                          HasBankAccountProperties(files[g].bank_account_code)},
                r \in 1..MaxRecords + 1}
    \cap {v \in (1..Len(files)) \X (1..MaxRecords + 1) : v[2] <= Len(files[v[1]].records)}

\* The noted records are the expected ones, each once, in listing and row order.
VisitedAllInOrder(ids) ==
    /\ {<<ids[i].file, ids[i].row>> : i \in 1..Len(ids)} = ExpectedVisits
    /\ \A i, j \in 1..Len(ids) :
           i < j => \/ ids[i].file < ids[j].file
                    \/ ids[i].file = ids[j].file /\ ids[i].row < ids[j].row

\* C30: every run ends; and a run that met no error of the store ends by the file
\* iterator's exhaustion, having visited every file in listing order and every row of
\* every file whose account has properties once, in row order; the iterator then
\* stays at the end of the listing.
C30_RunEndsHavingVisitedAll ==
    /\ (pc # "idle") ~> (pc = "idle")
    /\ [](\A k \in 1..Len(hist) :
            (/\ hist[k].kind = "run"
             /\ hist[k].outcome # "running"
             /\ hist[k].error \notin StorageErrors) =>
                /\ hist[k].outcome = "done"
                /\ VisitedAllInOrder(hist[k].ids)
                /\ k = Len(hist) => fileIdx = Len(files))
====
